---- MODULE Spec2Model ----
(***************************************************************************)
(* Model of src/language_info.py: class wals, a read-only access layer     *)
(* over three CSV tables (codes.csv, languages.csv, values.csv).           *)
(*                                                                         *)
(* Representation of strings.  An identifier (Parameter_ID, code ID,       *)
(* Value) is held as the sequence of its "-"-separated fields, which is    *)
(* exactly what str.split("-") returns: "81A-2" is <<"81A", "2">>, and     *)
(* a + "-" + b is a \o b.  A field is a "-"-free string.  A display name   *)
(* is held as the sequence of its characters, so that strip() and          *)
(* casefold() are computed, not assumed.  Language identifiers are only    *)
(* ever compared for equality and are plain strings.                       *)
(*                                                                         *)
(* A Python dict is held as [keys, val]: keys is the insertion order (the  *)
(* order .keys() and .items() iterate in), val the mapping.                *)
(*                                                                         *)
(* An optional argument is <<>> for None and <<x>> for a given x.          *)
(***************************************************************************)
EXTENDS Integers, Sequences, FiniteSets, TLC

VARIABLES
  codes_csv,      \* rows of codes.csv after the header
  languages_csv,  \* rows of languages.csv after the header
  values_csv,     \* rows of values.csv after the header
  feature2desc,   \* self.feature2desc
  lang2desc,      \* self.lang2desc
  binary,         \* self.binary
  feature2idx,    \* self.feature2idx (set in __init__)
  idx2feature,    \* self.idx2feature (set in __init__)
  call,           \* the last public call and its arguments
  ret             \* what that call returned or raised

vars == <<codes_csv, languages_csv, values_csv, feature2desc, lang2desc,
          binary, feature2idx, idx2feature, call, ret>>

----------------------------------------------------------------------------
(* Bounds of the model.                                                    *)

MaxCodeRows == 3
MaxLangRows == 3
MaxValueRows == 2
MaxListLen == 3

----------------------------------------------------------------------------
(* Python values.                                                          *)

None == <<>>
Some(x) == <<x>>

EmptyDict == [keys |-> <<>>, val |-> <<>>]

\* k in d
Has(d, k) == k \in DOMAIN d.val

\* d[k] = v: a new key goes to the end of the order, an old key keeps its place
Put(d, k, v) ==
  IF Has(d, k)
    THEN [d EXCEPT !.val[k] = v]
    ELSE [keys |-> Append(d.keys, k), val |-> d.val @@ (k :> v)]

Max(a, b) == IF a >= b THEN a ELSE b

RECURSIVE SeqsUpTo(_, _)
\* every sequence over S of length at most n
SeqsUpTo(S, n) ==
  IF n = 0 THEN {<<>>}
  ELSE LET shorter == SeqsUpTo(S, n - 1)
       IN  shorter \cup {Append(s, x) : s \in shorter, x \in S}

\* the decimal fields int() accepts, with their values; "02" is a numeral
\* that str() never produces
Numerals ==
  ("0" :> 0) @@ ("1" :> 1) @@ ("2" :> 2) @@ ("3" :> 3) @@ ("4" :> 4) @@
  ("5" :> 5) @@ ("6" :> 6) @@ ("7" :> 7) @@ ("8" :> 8) @@ ("9" :> 9) @@
  ("02" :> 2)

\* int(field) succeeds
IsInt(field) == field \in DOMAIN Numerals

\* int(field)
int(field) == Numerals[field]

\* str(i) for the one-digit values the model reaches
str(i) == CHOOSE f \in DOMAIN Numerals : Numerals[f] = i /\ f # "02"

----------------------------------------------------------------------------
(* get_feature_description: the codes table into self.feature2desc.        *)

\* the step of the loop body for one row; "ValueError"/"IndexError" when
\* int(row[ID].split("-")[1]) raises
CodesRowStep(acc, row) ==
  IF acc.tag # "ok" THEN acc
  ELSE IF Len(row.ID) < 2 THEN [tag |-> "IndexError"]
  ELSE IF ~IsInt(row.ID[2]) THEN [tag |-> "ValueError"]
  ELSE LET p   == row.Parameter_ID
           d0  == IF Has(acc.d, p) THEN acc.d
                  ELSE Put(acc.d, p, [max_value |-> 0, codes |-> <<>>])
           id  == int(row.ID[2])
           old == d0.val[p]
           new == [max_value |-> Max(old.max_value, id),
                   codes |-> (row.ID :> [Description |-> row.Description])
                             @@ old.codes]
       IN  [tag |-> "ok", d |-> Put(d0, p, new)]

RECURSIVE CodesLoop(_, _, _, _)
\* the loop over rows[lo..hi] from the state acc, rows taken in order; the
\* range is halved only to keep the evaluation shallow
CodesLoop(acc, rows, lo, hi) ==
  IF acc.tag # "ok" \/ lo > hi THEN acc
  ELSE IF lo = hi THEN CodesRowStep(acc, rows[lo])
  ELSE CodesLoop(CodesLoop(acc, rows, lo, (lo + hi) \div 2),
                 rows, (lo + hi) \div 2 + 1, hi)

get_feature_description(rows) ==
  CodesLoop([tag |-> "ok", d |-> EmptyDict], rows, 1, Len(rows))

----------------------------------------------------------------------------
(* init_language_info and get_language_info.                               *)

\* the record stored for one row of languages.csv
LangDesc(row) ==
  [Name |-> row.Name, ISO639P3code |-> row.ISO639P3code,
   Macroarea |-> row.Macroarea, Family |-> row.Family,
   Subfamily |-> row.Subfamily, Genus |-> row.Genus, ID |-> row.ID]

RECURSIVE LangLoop(_, _)
\* self.lang2desc after the first k rows
LangLoop(rows, k) ==
  IF k = 0 THEN EmptyDict
  ELSE Put(LangLoop(rows, k - 1), rows[k].ISO639P3code, LangDesc(rows[k]))

init_language_info(rows) == LangLoop(rows, Len(rows))

IsSpace(c) == c = " "

RECURSIVE lstrip(_)
lstrip(s) == IF s # <<>> /\ IsSpace(Head(s)) THEN lstrip(Tail(s)) ELSE s

RECURSIVE rstrip(_)
rstrip(s) ==
  IF s # <<>> /\ IsSpace(s[Len(s)]) THEN rstrip(SubSeq(s, 1, Len(s) - 1))
  ELSE s

\* str.strip()
strip(s) == rstrip(lstrip(s))

Lower == ("A" :> "a") @@ ("B" :> "b") @@ ("E" :> "e")

\* str.casefold() on the model's alphabet
casefold(s) ==
  [i \in 1..Len(s) |-> IF s[i] \in DOMAIN Lower THEN Lower[s[i]] ELSE s[i]]

RECURSIVE FirstNameMatch(_, _, _)
\* the for loop of get_language_info over self.lang2desc.items()
FirstNameMatch(d, keys, language_name) ==
  IF keys = <<>> THEN None
  ELSE IF casefold(strip(d.val[Head(keys)].Name))
            = casefold(strip(language_name))
    THEN Some(d.val[Head(keys)])
    ELSE FirstNameMatch(d, Tail(keys), language_name)

\* Python truth of an optional string or list argument: None and the empty
\* value are both false
Truthy(opt, empty) == opt # None /\ opt[1] # empty

\* get_language_info with the two tests in the other order
get_language_info_name_first(l2d, language_id, language_name) ==
  IF Truthy(language_name, <<>>)
    THEN [tag |-> "ok",
          value |-> FirstNameMatch(l2d, l2d.keys, language_name[1])]
  ELSE IF Truthy(language_id, "")
    THEN [tag |-> "ok",
          value |-> IF Has(l2d, language_id[1])
                      THEN Some(l2d.val[language_id[1]]) ELSE None]
  ELSE [tag |-> "ValueError"]

get_language_info(l2d, language_id, language_name) ==
  IF Truthy(language_id, "")
    THEN [tag |-> "ok",
          value |-> IF Has(l2d, language_id[1])
                      THEN Some(l2d.val[language_id[1]]) ELSE None]
  ELSE IF Truthy(language_name, <<>>)
    THEN [tag |-> "ok",
          value |-> FirstNameMatch(l2d, l2d.keys, language_name[1])]
  ELSE [tag |-> "ValueError"]

----------------------------------------------------------------------------
(* Feature sets and position maps.                                         *)

Morphological ==
  << <<"20A">>, <<"21A">>, <<"21B">>, <<"26A">>, <<"27A">>, <<"28A">>,
     <<"29A">>, <<"30A">>, <<"31A">>, <<"32A">>, <<"33A">>, <<"34A">>,
     <<"35A">>, <<"37A">>, <<"38A">>, <<"39A">>, <<"39B">>, <<"40A">>,
     <<"44A">>, <<"45A">>, <<"65A">>, <<"66A">>, <<"67A">>, <<"68A">>,
     <<"69A">>, <<"70A">> >>

Syntactic ==
  << <<"81A">>, <<"81B">>, <<"82A">>, <<"83A">>, <<"84A">>, <<"85A">>,
     <<"86A">>, <<"87A">>, <<"88A">>, <<"89A">>, <<"90A">>, <<"90B">>,
     <<"90C">>, <<"90D">>, <<"90E">>, <<"90F">>, <<"90G">>, <<"91A">>,
     <<"92A">>, <<"93A">>, <<"94A">>, <<"95A">>, <<"96A">>, <<"97A">>,
     <<"98A">>, <<"99A">>, <<"100A">>, <<"101A">>, <<"112A">>, <<"115A">>,
     <<"116A">>, <<"143C">>, <<"143D">>, <<"143E">>, <<"143F">>, <<"144A">>,
     <<"144C">>, <<"144D">> >>

\* feature_set_type is the raw argument: None or Some(string)
get_predefined_feature_sets(feature_set_type) ==
  IF feature_set_type = Some("phonological")
    THEN [tag |-> "NotImplementedError"]
  ELSE IF feature_set_type = Some("morphological")
    THEN [tag |-> "ok", features |-> Morphological]
  ELSE IF feature_set_type = Some("syntactic")
    THEN [tag |-> "ok", features |-> Syntactic]
  ELSE [tag |-> "ValueError"]

\* the block with range(1, max_value): the last code is lost
CodeBlockShort(f2d, feature) ==
  [i \in 1..(f2d.val[feature].max_value - 1) |-> feature \o <<str(i)>>]

\* [feature + "-" + str(i) for i in range(1, max_value + 1)]
CodeBlock(f2d, feature) ==
  [i \in 1..f2d.val[feature].max_value |-> feature \o <<str(i)>>]

\* the loop body for one feature
BinarizeStep(acc, f2d, feature) ==
  IF Has(f2d, feature)
    THEN [tag |-> "ok", features |-> acc.features \o CodeBlock(f2d, feature)]
    ELSE [tag |-> "ValueError"]

RECURSIVE BinarizeLoop(_, _, _, _, _)
\* the loop over feature_set[lo..hi] in order, halved as in CodesLoop
BinarizeLoop(acc, f2d, feature_set, lo, hi) ==
  IF acc.tag # "ok" \/ lo > hi THEN acc
  ELSE IF lo = hi THEN BinarizeStep(acc, f2d, feature_set[lo])
  ELSE BinarizeLoop(BinarizeLoop(acc, f2d, feature_set, lo, (lo + hi) \div 2),
                    f2d, feature_set, (lo + hi) \div 2 + 1, hi)

_binarize_feature_set(f2d, feature_set) ==
  BinarizeLoop([tag |-> "ok", features |-> <<>>], f2d, feature_set,
               1, Len(feature_set))

\* lines 229-236: the feature set the position map is built from
ResolveFeatureSet(f2d, bin, feature_set_type, feature_set) ==
  LET chosen ==
        IF Truthy(feature_set_type, "")
          THEN get_predefined_feature_sets(feature_set_type)
        ELSE IF ~Truthy(feature_set, <<>>)
          THEN [tag |-> "ok", features |-> f2d.keys]
        ELSE [tag |-> "ok", features |-> feature_set[1]]
  IN  IF chosen.tag # "ok" THEN chosen
      ELSE IF bin THEN _binarize_feature_set(f2d, chosen.features)
      ELSE chosen

\* the position a feature is stored at: len(feature2idx) before the store
NextPosition(f2i) == Cardinality(DOMAIN f2i)

\* the loop body for one feature
PositionStep(acc, f) ==
  [feature2idx |-> (f :> NextPosition(acc.feature2idx)) @@ acc.feature2idx,
   idx2feature |-> (Cardinality(DOMAIN acc.idx2feature) :> f)
                   @@ acc.idx2feature]

RECURSIVE PositionLoop(_, _, _, _)
\* the loop over features[lo..hi] in order, halved as in CodesLoop (a
\* record's DOMAIN is never empty: the test only has acc evaluated before
\* the range is split)
PositionLoop(acc, features, lo, hi) ==
  IF lo > hi \/ DOMAIN acc = {} THEN acc
  ELSE IF lo = hi THEN PositionStep(acc, features[lo])
  ELSE PositionLoop(PositionLoop(acc, features, lo, (lo + hi) \div 2),
                    features, (lo + hi) \div 2 + 1, hi)

get_feature_vector(f2d, bin, feature_set_type, feature_set) ==
  LET fs == ResolveFeatureSet(f2d, bin, feature_set_type, feature_set)
  IN  IF fs.tag # "ok" THEN fs
      ELSE LET maps == PositionLoop([feature2idx |-> <<>>,
                                     idx2feature |-> <<>>],
                                    fs.features, 1, Len(fs.features))
           IN  [tag |-> "ok", feature2idx |-> maps.feature2idx,
                idx2feature |-> maps.idx2feature]

----------------------------------------------------------------------------
(* get_language_vector.                                                    *)

\* int(row[value_idx]) succeeds: the whole Value is one numeral
ValueIsInt(value) == Len(value) = 1 /\ IsInt(value[1])

\* the row step with the binary branch matching rows of every language
ValuesRowStepAnyLanguage(acc, row, bin, language_id, f2i) ==
  IF acc.tag # "ok" THEN acc
  ELSE IF bin
    THEN LET feature == row.Parameter_ID \o row.Value
         IN  IF feature \in DOMAIN f2i
               THEN IF f2i[feature] \in DOMAIN acc.vec
                      THEN [acc EXCEPT !.vec[f2i[feature]] = 1]
                      ELSE [tag |-> "IndexError"]
               ELSE acc
    ELSE IF row.Language_ID = language_id /\ row.Parameter_ID \in DOMAIN f2i
           THEN IF ~ValueIsInt(row.Value) THEN [tag |-> "ValueError"]
                ELSE IF f2i[row.Parameter_ID] \in DOMAIN acc.vec
                  THEN [acc EXCEPT !.vec[f2i[row.Parameter_ID]]
                                      = int(row.Value[1])]
                  ELSE [tag |-> "IndexError"]
           ELSE acc

\* one row of values.csv against the vector built so far
ValuesRowStep(acc, row, bin, language_id, f2i) ==
  IF acc.tag # "ok" THEN acc
  ELSE IF bin
    THEN LET feature == row.Parameter_ID \o row.Value
         IN  IF row.Language_ID = language_id /\ feature \in DOMAIN f2i
               THEN IF f2i[feature] \in DOMAIN acc.vec
                      THEN [acc EXCEPT !.vec[f2i[feature]] = 1]
                      ELSE [tag |-> "IndexError"]
               ELSE acc
    ELSE IF row.Language_ID = language_id /\ row.Parameter_ID \in DOMAIN f2i
           THEN IF ~ValueIsInt(row.Value) THEN [tag |-> "ValueError"]
                ELSE IF f2i[row.Parameter_ID] \in DOMAIN acc.vec
                  THEN [acc EXCEPT !.vec[f2i[row.Parameter_ID]]
                                      = int(row.Value[1])]
                  ELSE [tag |-> "IndexError"]
           ELSE acc

RECURSIVE ValuesLoop(_, _, _, _, _)
\* lang_vector after the first k rows, or the error raised on the way
ValuesLoop(rows, k, bin, language_id, f2i) ==
  IF k = 0
    THEN [tag |-> "ok",
          vec |-> [i \in 0..(Cardinality(DOMAIN f2i) - 1) |-> 0]]
  ELSE ValuesRowStep(ValuesLoop(rows, k - 1, bin, language_id, f2i),
                     rows[k], bin, language_id, f2i)

\* the map the scan uses: the default map when the argument is None or empty
EffectiveMap(f2d, bin, f2i_arg) ==
  IF f2i_arg = None \/ DOMAIN f2i_arg[1] = {}
    THEN get_feature_vector(f2d, bin, None, None).feature2idx
    ELSE f2i_arg[1]

\* the vector is indexed 0..n-1 as in the code
get_language_vector(f2d, bin, values, language_id, f2i_arg) ==
  LET f2i == EffectiveMap(f2d, bin, f2i_arg)
  IN  ValuesLoop(values, Len(values), bin, language_id, f2i)

----------------------------------------------------------------------------
(* The tables the model draws from.                                        *)

CodeRow(p, id) == [Parameter_ID |-> p, ID |-> id, Description |-> "d"]

\* "A-1", "A-3" (suffixes need not be contiguous), "B-2", a parameter whose
\* own ID holds the separator ("A-1" with code "A-1-2"), and a code ID whose
\* suffix is no numeral
CodeRowSet ==
  { CodeRow(<<"A">>, <<"A", "1">>), CodeRow(<<"A">>, <<"A", "3">>),
    CodeRow(<<"B">>, <<"B", "2">>),
    CodeRow(<<"A", "1">>, <<"A", "1", "2">>),
    CodeRow(<<"B">>, <<"B", "x">>) }

\* one code, suffix 2, for every parameter of the syntactic set
SyntacticCodes ==
  [k \in 1..Len(Syntactic) |-> CodeRow(Syntactic[k], Syntactic[k] \o <<"2">>)]

LangRow(id, name, iso) ==
  [ID |-> id, Name |-> name, ISO639P3code |-> iso, Macroarea |-> "Eurasia",
   Family |-> "f", Subfamily |-> "", Genus |-> "g"]

\* two rows share the ISO code "eng", two share the name "Ba", and the
\* names "En" and " en" differ in case and blanks only
LangRowSet ==
  { LangRow("w1", <<"E", "n">>, "eng"), LangRow("w2", <<" ", "e", "n">>, "enm"),
    LangRow("w3", <<"B", "a">>, "eng"), LangRow("w4", <<"B", "a">>, "") }

ValueRow(l, p, v) == [Language_ID |-> l, Parameter_ID |-> p, Value |-> v]

\* for language "eng" and parameter A: values 1 and 3, a value above every
\* max_value (4), the numeral "02", and the value "2-2", which after "A-"
\* spells the code ID "A-2-2" of parameter "A-2"; a value of "A-2"; a value
\* that is no numeral; a row of another language
ValueRowSet ==
  { ValueRow("eng", <<"A">>, <<"1">>), ValueRow("eng", <<"A">>, <<"3">>),
    ValueRow("eng", <<"A">>, <<"02">>), ValueRow("eng", <<"A">>, <<"4">>),
    ValueRow("eng", <<"A">>, <<"2", "2">>),
    ValueRow("eng", <<"A", "2">>, <<"1">>),
    ValueRow("eng", <<"B">>, <<"x">>), ValueRow("eng", <<"B">>, <<"1">>),
    ValueRow("deu", <<"A">>, <<"1">>) }

\* the tables a run of the program may find on disk
Tables(rows, n) == SeqsUpTo(rows, n)

\* arguments of the public calls
TypeArgs ==
  {None, Some(""), Some("syntactic"), Some("morphological"),
   Some("phonological"), Some("lexical")}

ListParams == { <<"A">>, <<"B">>, <<"Z">> }

ListArgs ==
  {None} \cup {Some(l) : l \in SeqsUpTo(ListParams, MaxListLen)}
         \cup {Some(<< <<"A">>, <<"B">>, <<"B">>, <<"A">> >>)}

LanguageIdArgs == {None, Some(""), Some("eng"), Some("enm"), Some("zzz")}

LanguageNameArgs ==
  {None, Some(<<>>), Some(<<"e", "n">>), Some(<<"E", "N", " ">>),
   Some(<<"b", "a">>), Some(<<"x">>)}

VectorLanguages == {"eng", "deu", "zzz"}

----------------------------------------------------------------------------
(* The state machine: construction, then any sequence of public calls.     *)

\* __init__ on the given files; construction fails, and leaves no object,
\* when get_feature_description raises
Construct(codes, languages, values, bin) ==
  /\ get_feature_description(codes).tag = "ok"
  /\ codes_csv = codes
  /\ languages_csv = languages
  /\ values_csv = values
  /\ feature2idx = <<>>
  /\ idx2feature = <<>>
  /\ feature2desc = get_feature_description(codes).d
  /\ binary = bin
  /\ lang2desc = init_language_info(languages)
  /\ call = [op |-> "__init__"]
  /\ ret = [tag |-> "ok"]

Frame ==
  UNCHANGED <<codes_csv, languages_csv, values_csv, feature2desc, lang2desc,
              binary, feature2idx, idx2feature>>

GetLanguageInfo ==
  \E id \in LanguageIdArgs, name \in LanguageNameArgs :
    /\ call' = [op |-> "get_language_info", language_id |-> id,
                language_name |-> name]
    /\ ret' = get_language_info(lang2desc, id, name)
    /\ Frame

GetPredefinedFeatureSets ==
  \E type \in TypeArgs :
    /\ call' = [op |-> "get_predefined_feature_sets",
                feature_set_type |-> type]
    /\ ret' = get_predefined_feature_sets(type)
    /\ Frame

\* get_feature_vector keeping the maps it built in self.feature2idx and
\* self.idx2feature
GetFeatureVectorStoring(Types, Lists) ==
  \E type \in Types, list \in Lists :
    LET r == get_feature_vector(feature2desc, binary, type, list)
    IN  /\ Truthy(type, "") => list \in {None, Some(<< <<"A">> >>)}
        /\ call' = [op |-> "get_feature_vector", feature_set_type |-> type,
                    feature_set |-> list]
        /\ ret' = r
        /\ feature2idx' = IF r.tag = "ok" THEN r.feature2idx ELSE feature2idx
        /\ idx2feature' = IF r.tag = "ok" THEN r.idx2feature ELSE idx2feature
        /\ UNCHANGED <<codes_csv, languages_csv, values_csv, feature2desc,
                       lang2desc, binary>>

GetFeatureVector(Types, Lists) ==
  \E type \in Types, list \in Lists :
    \* a set name makes the list irrelevant (line 229): one list stands for all
    /\ Truthy(type, "") => list \in {None, Some(<< <<"A">> >>)}
    /\ call' = [op |-> "get_feature_vector", feature_set_type |-> type,
                feature_set |-> list]
    /\ ret' = get_feature_vector(feature2desc, binary, type, list)
    /\ Frame

\* the caller passes no map, an empty map, or the map the preceding
\* get_feature_vector call returned; feature_set_type and feature_set record
\* the arguments that map was built with
GetLanguageVector ==
  \E language_id \in VectorLanguages :
    \E src \in {"none", "empty", "returned"} :
      /\ src = "returned" => call.op = "get_feature_vector" /\ ret.tag = "ok"
      /\ LET arg == IF src = "none" THEN None
                    ELSE IF src = "empty" THEN Some(<<>>)
                    ELSE Some(ret.feature2idx)
         IN  /\ call' = [op |-> "get_language_vector",
                         language_id |-> language_id, feature2idx |-> arg,
                         feature_set_type |->
                           IF src = "returned" THEN call.feature_set_type
                           ELSE None,
                         feature_set |->
                           IF src = "returned" THEN call.feature_set
                           ELSE None]
             /\ ret' = get_language_vector(feature2desc, binary, values_csv,
                                           language_id, arg)
      /\ Frame

\* a call on the object as constructed, before any other call
Fresh == call.op = "__init__"

\* catalog and position maps: every codes table, both modes, one query on
\* the fresh object (sequences of queries are Spec's)
InitCatalog ==
  \E t \in Tables(CodeRowSet, MaxCodeRows), pre \in {<<>>, SyntacticCodes},
     bin \in BOOLEAN :
    Construct(pre \o t, <<>>, <<>>, bin)

QueryFeatureVector == Fresh /\ GetFeatureVector(TypeArgs, ListArgs)

QueryPredefinedFeatureSets == Fresh /\ GetPredefinedFeatureSets

NextCatalog == QueryFeatureVector \/ QueryPredefinedFeatureSets

SpecCatalog == InitCatalog /\ [][NextCatalog]_vars

\* the language directory: every languages table, one lookup
InitLanguages ==
  \E t \in Tables(LangRowSet, MaxLangRows) :
    Construct(<<>>, t, <<>>, FALSE)

QueryLanguageInfo == Fresh /\ GetLanguageInfo

NextLanguages == QueryLanguageInfo

SpecLanguages == InitLanguages /\ [][NextLanguages]_vars

\* language vectors: every values table over three catalogs (A with codes
\* 1 and 3 and B with code 2; A beside a parameter "A-2"; none), both
\* modes; a position map is built, then a vector with it
VectorCatalogs ==
  { << CodeRow(<<"A">>, <<"A", "1">>), CodeRow(<<"A">>, <<"A", "3">>),
       CodeRow(<<"B">>, <<"B", "2">>) >>,
    << CodeRow(<<"A">>, <<"A", "1">>),
       CodeRow(<<"A", "2">>, <<"A", "2", "1">>) >>,
    << >> }

VectorTypeArgs == {None, Some("syntactic")}

VectorListArgs ==
  { None, Some(<< <<"A">> >>), Some(<< <<"B">>, <<"A">> >>),
    Some(<< <<"A">>, <<"A">> >>), Some(<< <<"A">>, <<"A">>, <<"B">> >>),
    Some(<< <<"A", "2">> >>) }

InitVectors ==
  \E c \in VectorCatalogs, t \in Tables(ValueRowSet, MaxValueRows),
     bin \in BOOLEAN :
    Construct(c, <<>>, t, bin)

BuildPositionMap == Fresh /\ GetFeatureVector(VectorTypeArgs, VectorListArgs)

BuildLanguageVector ==
  call.op \in {"__init__", "get_feature_vector"} /\ GetLanguageVector

NextVectors == BuildPositionMap \/ BuildLanguageVector

SpecVectors == InitVectors /\ [][NextVectors]_vars

\* the whole interface on small tables: any sequence of calls
SessionTypeArgs == {None, Some("morphological"), Some("lexical")}

SessionListArgs ==
  {None, Some(<<>>), Some(<< <<"B">>, <<"A">> >>), Some(<< <<"A">>, <<"A">> >>)}

Init ==
  \E c \in {<<>>, << CodeRow(<<"A">>, <<"A", "3">>),
                     CodeRow(<<"B">>, <<"B", "2">>) >>},
     l \in Tables(LangRowSet, 1),
     v \in Tables({ValueRow("eng", <<"A">>, <<"3">>),
                   ValueRow("deu", <<"B">>, <<"1">>)}, 1),
     bin \in BOOLEAN :
    Construct(c, l, v, bin)

Next ==
  \/ GetLanguageInfo
  \/ GetPredefinedFeatureSets
  \/ GetFeatureVector(SessionTypeArgs, SessionListArgs)
  \/ GetLanguageVector

Spec == Init /\ [][Next]_vars

----------------------------------------------------------------------------
(* Reading the last call.                                                  *)

IsCall(op) == call.op = op

\* max_value of parameter p in the catalog
MaxValue(p) == feature2desc.val[p].max_value

\* the code IDs recorded for parameter p
CodesOf(p) == DOMAIN feature2desc.val[p].codes

\* the code ID p-i
CodeId(p, i) == p \o <<str(i)>>

\* the parameter IDs the last get_feature_vector call resolved, before any
\* binarization
ResolvedParams ==
  ResolveFeatureSet(feature2desc, FALSE, call.feature_set_type,
                    call.feature_set).features

RECURSIVE SumMaxValue(_, _)
\* max_value summed over the first k entries of R
SumMaxValue(R, k) ==
  IF k = 0 THEN 0 ELSE SumMaxValue(R, k - 1) + MaxValue(R[k])

----------------------------------------------------------------------------
(* C1: for every parameter ID p of the catalog, max_value(p) is the        *)
(* largest numeric suffix among the code IDs recorded for p, the suffix    *)
(* being the part of the code ID after the last separator: it is attained  *)
(* by a recorded code and no recorded suffix exceeds it.                   *)
C1_MaxValueIsMaxSuffix ==
  \A p \in DOMAIN feature2desc.val :
    LET suffixes == {int(c[Len(c)]) : c \in CodesOf(p)}
    IN  /\ MaxValue(p) \in suffixes
        /\ \A n \in suffixes : n <= MaxValue(p)

(* C2: with binarization on, get_feature_vector lays out, for the k-th     *)
(* parameter p of the resolved feature set, the code IDs p-1, ...,         *)
(* p-max_value(p) in ascending order at the positions that follow the      *)
(* blocks of the parameters before it; the sequence has as many entries as *)
(* the max_values of the resolved set sum to.                              *)
C2_BinarizedBlocks ==
  (IsCall("get_feature_vector") /\ binary /\ ret.tag = "ok") =>
    LET R == ResolvedParams
    IN  /\ DOMAIN ret.idx2feature = 0..(SumMaxValue(R, Len(R)) - 1)
        /\ \A k \in 1..Len(R) : \A i \in 1..MaxValue(R[k]) :
             ret.idx2feature[SumMaxValue(R, k - 1) + i - 1] = CodeId(R[k], i)

\* a binarized map of two different parameters with several codes each
C2_Witness ==
  /\ IsCall("get_feature_vector") /\ binary /\ ret.tag = "ok"
  /\ Len(ResolvedParams) >= 2
  /\ ResolvedParams[1] # ResolvedParams[2]
  /\ MaxValue(ResolvedParams[1]) >= 2
  /\ MaxValue(ResolvedParams[2]) >= 2

\* the feature sequence the last successful get_feature_vector call walked
WalkedFeatures ==
  ResolveFeatureSet(feature2desc, binary, call.feature_set_type,
                    call.feature_set).features

(* C4: the pair (feature2idx, idx2feature) get_feature_vector returns is a *)
(* bijection between the feature set's identifiers and the positions       *)
(* 0..n-1, n the number of entries of feature2idx; it keeps the feature    *)
(* set's order and idx2feature[feature2idx[f]] = f for every f.            *)
C4_PositionMapBijection ==
  (IsCall("get_feature_vector") /\ ret.tag = "ok") =>
    LET f2i == ret.feature2idx
        i2f == ret.idx2feature
        n   == Cardinality(DOMAIN f2i)
        fs  == WalkedFeatures
        First(f) == CHOOSE a \in 1..Len(fs) :
                      fs[a] = f /\ \A b \in 1..(a - 1) : fs[b] # f
    IN  /\ DOMAIN f2i = {fs[a] : a \in 1..Len(fs)}
        /\ {f2i[f] : f \in DOMAIN f2i} = 0..(n - 1)
        /\ \A f, g \in DOMAIN f2i : f # g => f2i[f] # f2i[g]
        /\ \A f \in DOMAIN f2i : f2i[f] \in DOMAIN i2f /\ i2f[f2i[f]] = f
        /\ \A f, g \in DOMAIN f2i : First(f) < First(g) => f2i[f] < f2i[g]

(* C8: get_feature_vector resolves its feature set by strict precedence:   *)
(* a given set name selects the fixed named list (an unknown name or       *)
(* "phonological" is an error); otherwise a given explicit list is used    *)
(* as it is, the empty list included; only with neither is the set every   *)
(* parameter ID of the catalog in insertion order.  (The empty string is   *)
(* read here as no set name.)                                              *)
C8_ResolutionPrecedence ==
  IsCall("get_feature_vector") =>
    LET claimed ==
          IF Truthy(call.feature_set_type, "")
            THEN get_predefined_feature_sets(call.feature_set_type)
          ELSE IF call.feature_set # None
            THEN [tag |-> "ok", features |-> call.feature_set[1]]
          ELSE [tag |-> "ok", features |-> feature2desc.keys]
        walked ==
          IF claimed.tag = "ok" /\ binary
            THEN _binarize_feature_set(feature2desc, claimed.features)
            ELSE claimed
    IN  IF walked.tag # "ok" THEN ret.tag = walked.tag
        ELSE /\ ret.tag = "ok"
             /\ DOMAIN ret.idx2feature = 0..(Len(walked.features) - 1)
             /\ \A a \in 1..Len(walked.features) :
                  ret.idx2feature[a - 1] = walked.features[a]

----------------------------------------------------------------------------
(* Claims about the language directory.                                    *)

\* the two names are equal once trimmed and case-folded
SameName(a, b) == casefold(strip(a)) = casefold(strip(b))

\* the identifier lookup: the directory entry, or None
IdLookup(id) ==
  IF id \in DOMAIN lang2desc.val THEN Some(lang2desc.val[id]) ELSE None

(* C6 as stated: get_language_info requires exactly one of language_id and *)
(* language_name; a call that supplies neither and a call that supplies    *)
(* both fail with ValueError, and only a call with exactly one of them     *)
(* performs a lookup.  (An empty string is read here as not supplied.)     *)
C6_ExactlyOneArgument ==
  IsCall("get_language_info") =>
    LET given == {a \in {"id", "name"} :
                    \/ a = "id" /\ Truthy(call.language_id, "")
                    \/ a = "name" /\ Truthy(call.language_name, <<>>)}
    IN  IF Cardinality(given) = 1 THEN ret.tag = "ok"
        ELSE ret.tag = "ValueError"

(* C6 as amended: get_language_info fails with ValueError exactly when     *)
(* neither a non-empty language_id nor a non-empty language_name is        *)
(* supplied; a non-empty language_id is looked up in the directory whether *)
(* or not a name comes with it; a non-empty name alone is looked up by     *)
(* name, and what it returns, if anything, has that name.                  *)
C6_EitherArgument ==
  IsCall("get_language_info") =>
    LET byId   == Truthy(call.language_id, "")
        byName == Truthy(call.language_name, <<>>)
    IN  /\ ret.tag = IF byId \/ byName THEN "ok" ELSE "ValueError"
        /\ byId => ret.value = IdLookup(call.language_id[1])
        /\ (~byId /\ byName /\ ret.value # None) =>
             SameName(ret.value[1].Name, call.language_name[1])

\* both arguments supplied: the identifier's record comes back although
\* the name is another language's
C6_Witness ==
  /\ IsCall("get_language_info")
  /\ Truthy(call.language_id, "") /\ Truthy(call.language_name, <<>>)
  /\ ret.tag = "ok" /\ ret.value # None
  /\ ~SameName(ret.value[1].Name, call.language_name[1])

(* C7: a lookup by name returns the record of the first row of the         *)
(* languages table, in file order, whose name equals the given one once    *)
(* both are trimmed and case-folded, and None when no row matches; for     *)
(* every languages table, rows that share an ISO code or a name included.  *)
C7_FirstMatchInFileOrder ==
  (/\ IsCall("get_language_info")
   /\ ~Truthy(call.language_id, "")
   /\ Truthy(call.language_name, <<>>)) =>
    LET matching == {k \in 1..Len(languages_csv) :
                       SameName(languages_csv[k].Name, call.language_name[1])}
        first == CHOOSE k \in matching : \A j \in matching : k <= j
    IN  /\ ret.tag = "ok"
        /\ ret.value = IF matching = {} THEN None
                       ELSE Some(LangDesc(languages_csv[first]))

----------------------------------------------------------------------------
(* Claims about language vectors.                                          *)

\* the position map the last get_language_vector call was given
GivenMap == call.feature2idx[1]

\* the rows of values.csv for the queried language
LanguageRows ==
  {k \in 1..Len(values_csv) : values_csv[k].Language_ID = call.language_id}

\* the feature a row is looked up by: the code ID in binary mode, the
\* parameter ID otherwise
RowFeature(row, bin) ==
  IF bin THEN row.Parameter_ID \o row.Value ELSE row.Parameter_ID

(* C5: get_language_vector returns a vector with exactly one slot per      *)
(* entry of the position map it was given; a slot is non-zero only if the  *)
(* values table holds a row of that language whose feature maps to the     *)
(* slot; rows of other languages and rows whose feature is not in the map  *)
(* change no slot and raise no error.                                      *)
C5_VectorOverGivenMap ==
  (IsCall("get_language_vector") /\ call.feature2idx # None) =>
    LET hits == {k \in LanguageRows :
                   RowFeature(values_csv[k], binary) \in DOMAIN GivenMap}
    IN  /\ ret.tag # "ok" => hits # {}
        /\ ret.tag = "ok" =>
             /\ DOMAIN ret.vec = 0..(Cardinality(DOMAIN GivenMap) - 1)
             /\ \A slot \in DOMAIN ret.vec :
                  ret.vec[slot] # 0 =>
                    \E k \in hits :
                      GivenMap[RowFeature(values_csv[k], binary)] = slot

(* C10: every position stored in a map returned by get_feature_vector is   *)
(* below the number of entries of the map, so get_language_vector, given   *)
(* that map, writes inside the vector it allocates and raises no           *)
(* IndexError.                                                             *)
C10_PositionsInRange ==
  (/\ IsCall("get_language_vector")
   /\ call.feature2idx # None
   /\ DOMAIN GivenMap # {}) =>
    /\ \A f \in DOMAIN GivenMap : GivenMap[f] < Cardinality(DOMAIN GivenMap)
    /\ ret.tag # "IndexError"

\* the vector the same call returns on the object built with binary = True
\* from the same files: the map is built by the same get_feature_vector
\* arguments
TwinMapArg ==
  IF call.feature2idx = None \/ DOMAIN GivenMap = {} THEN call.feature2idx
  ELSE Some(get_feature_vector(feature2desc, TRUE, call.feature_set_type,
                               call.feature_set).feature2idx)

TwinExists ==
  get_feature_vector(feature2desc, TRUE, call.feature_set_type,
                     call.feature_set).tag = "ok"

TwinMap == EffectiveMap(feature2desc, TRUE, TwinMapArg)

TwinVector ==
  get_language_vector(feature2desc, TRUE, values_csv, call.language_id,
                      TwinMapArg)

\* the non-binarized vector of the last call, its map, and the parameters
\* of the map that the language has data for
PlainMap == EffectiveMap(feature2desc, FALSE, call.feature2idx)

RowsOf(p) == {k \in LanguageRows : values_csv[k].Parameter_ID = p}

BothVectors ==
  /\ IsCall("get_language_vector") /\ ~binary /\ ret.tag = "ok"
  /\ TwinExists /\ TwinVector.tag = "ok"

\* exactly the slot of p-v is 1 among the slots of p's codes
OneHot(p, v) ==
  /\ v \in 1..MaxValue(p)
  /\ \A i \in 1..MaxValue(p) :
       /\ CodeId(p, i) \in DOMAIN TwinMap
       /\ TwinMap[CodeId(p, i)] \in DOMAIN TwinVector.vec
       /\ TwinVector.vec[TwinMap[CodeId(p, i)]] = (IF i = v THEN 1 ELSE 0)

(* C3 as stated: for the same values table, language and parameter p whose *)
(* data is present, if the non-binarized vector holds v in the slot of p   *)
(* then in the binarized vector exactly the slot of code p-v is 1 and      *)
(* every other slot p-* is 0; for every values table.                      *)
C3_BinaryMatchesPlain ==
  BothVectors =>
    \A p \in DOMAIN PlainMap :
      (RowsOf(p) # {} /\ Has(feature2desc, p)) =>
        OneHot(p, ret.vec[PlainMap[p]])

\* the feature set of the last call's map holds no identifier twice
NoRepeats ==
  LET fs == ResolveFeatureSet(feature2desc, FALSE,
              IF call.feature2idx = None \/ DOMAIN GivenMap = {}
                THEN None ELSE call.feature_set_type,
              IF call.feature2idx = None \/ DOMAIN GivenMap = {}
                THEN None ELSE call.feature_set).features
  IN  \A a, b \in 1..Len(fs) : fs[a] = fs[b] => a = b

\* the one row of the language for p holds the decimal numeral str(v) of a
\* v in 1..max_value(p), and no other row of the language spells a code ID
\* of p
SingleCanonicalRow(p) ==
  /\ Cardinality(RowsOf(p)) = 1
  /\ \E k \in RowsOf(p), v \in 1..MaxValue(p) :
       values_csv[k].Value = <<str(v)>>
  /\ \A k \in LanguageRows \ RowsOf(p) : \A i \in 1..MaxValue(p) :
       RowFeature(values_csv[k], TRUE) # CodeId(p, i)

(* C3 as amended: the same, for a values table that holds exactly one row  *)
(* for the language and p, whose Value is the decimal numeral, as str()    *)
(* writes it, of a v in 1..max_value(p), and no other row of the language  *)
(* whose Parameter_ID-Value spells a code ID of p, and for position maps   *)
(* built from a feature set that lists no identifier twice.                *)
C3_BinaryMatchesPlainSingleRow ==
  (BothVectors /\ NoRepeats) =>
    \A p \in DOMAIN PlainMap :
      (Has(feature2desc, p) /\ SingleCanonicalRow(p)) =>
        /\ values_csv[CHOOSE k \in RowsOf(p) : TRUE].Value
             = <<str(ret.vec[PlainMap[p]])>>
        /\ OneHot(p, ret.vec[PlainMap[p]])

\* a parameter with three codes observed with value 3, beside another row
\* of the language
C3_Witness ==
  /\ BothVectors /\ NoRepeats
  /\ \E p \in DOMAIN PlainMap :
       /\ Has(feature2desc, p) /\ SingleCanonicalRow(p)
       /\ MaxValue(p) = 3
       /\ ret.vec[PlainMap[p]] = 3
       /\ TwinVector.vec[TwinMap[CodeId(p, 3)]] = 1
       /\ Cardinality(LanguageRows) >= 2

----------------------------------------------------------------------------
(* Claims about sessions of several calls.                                 *)

\* what call c returns on an object newly constructed from the files, with
\* binary flag bin
AnswerFromFiles(c, bin) ==
  LET f2d == get_feature_description(codes_csv).d
      l2d == init_language_info(languages_csv)
  IN  CASE c.op = "get_language_info" ->
             get_language_info(l2d, c.language_id, c.language_name)
        [] c.op = "get_predefined_feature_sets" ->
             get_predefined_feature_sets(c.feature_set_type)
        [] c.op = "get_feature_vector" ->
             get_feature_vector(f2d, bin, c.feature_set_type, c.feature_set)
        [] c.op = "get_language_vector" ->
             get_language_vector(f2d, bin, values_csv, c.language_id,
                                 c.feature2idx)

(* C9: once construction has finished, no call of get_language_info,       *)
(* get_predefined_feature_sets, get_feature_vector or get_language_vector, *)
(* successful or failing, changes feature2desc, lang2desc, the binary flag *)
(* or the maps set in __init__, and every call returns what it would       *)
(* return as the first call on a newly constructed object.                 *)
C9_QueriesChangeNothing ==
  [][/\ UNCHANGED <<feature2desc, lang2desc, binary, feature2idx,
                    idx2feature>>
     /\ ret' = AnswerFromFiles(call', binary)]_vars

\* a vector with an observed value, built with the map an earlier call
\* returned
C9_Witness ==
  /\ IsCall("get_language_vector")
  /\ call.feature2idx # None /\ DOMAIN GivenMap # {}
  /\ ret.tag = "ok"
  /\ \E slot \in DOMAIN ret.vec : ret.vec[slot] # 0

====
